---------------------------- MODULE Spec2Model ----------------------------
(***************************************************************************)
(* A model of the two programs of the repository:                          *)
(*   - claude-api-server/openclaw-http-bridge.py: the Flask endpoint       *)
(*     /conversation/process and the pure function extract_response_text;  *)
(*   - voice-app/lib/moss-tts.py: the one-shot synthesis client main().    *)
(*                                                                         *)
(* A Python str is a sequence of one-character strings.  A Python value    *)
(* (what json.loads or request.get_json returns) is a tagged record:       *)
(*   [t |-> "None"], [t |-> "bool", b |-> TRUE], [t |-> "int", n |-> 7],    *)
(*   [t |-> "str", s |-> chars], [t |-> "list", items |-> <<values>>],     *)
(*   [t |-> "dict", pairs |-> << <<key chars, value>>, ... >>]             *)
(* (a dict keeps its insertion order, as in Python).                       *)
(*                                                                         *)
(* The character alphabet of the modelled texts is: letters, digits,       *)
(* space, newline, and the punctuation  " ' \ { } [ ] : , * - / .          *)
(* No modelled text holds a float literal, a \u escape or a control        *)
(* character other than newline.                                           *)
(***************************************************************************)
EXTENDS Integers, Sequences, FiniteSets, TLC

----------------------------------------------------------------------------
(* Characters and Python values *)

DQ == "\""
SQ == "'"
BS == "\\"
NL == "\n"
SP == " "

Digits == <<"0", "1", "2", "3", "4", "5", "6", "7", "8", "9">>
IsDigit(c) == \E d \in 1..10 : Digits[d] = c
DigitVal(c) == (CHOOSE d \in 1..10 : Digits[d] = c) - 1

\* Python's str.isspace / the regex class \s, on the alphabet
IsSpace(c) == c \in {SP, NL}

PyNone == [t |-> "None"]
PyBool(b) == [t |-> "bool", b |-> b]
PyInt(n) == [t |-> "int", n |-> n]
PyStrV(s) == [t |-> "str", s |-> s]
PyList(items) == [t |-> "list", items |-> items]
PyDict(pairs) == [t |-> "dict", pairs |-> pairs]

IsDict(v) == v.t = "dict"
IsList(v) == v.t = "list"
IsStr(v) == v.t = "str"

\* key in d
DictHas(d, k) == \E i \in 1..Len(d.pairs) : d.pairs[i][1] = k
\* d[key]
DictGet(d, k) == d.pairs[CHOOSE i \in 1..Len(d.pairs) : d.pairs[i][1] = k][2]
\* d[key] = val: an existing key keeps its place
DictSet(pairs, k, val) ==
    IF \E i \in 1..Len(pairs) : pairs[i][1] = k
    THEN [i \in 1..Len(pairs) |-> IF pairs[i][1] = k THEN <<k, val>> ELSE pairs[i]]
    ELSE Append(pairs, <<k, val>>)

\* Python truthiness: bool(v)
Truthy(v) ==
    CASE v.t = "None" -> FALSE
      [] v.t = "bool" -> v.b
      [] v.t = "int" -> v.n # 0
      [] v.t = "str" -> Len(v.s) > 0
      [] v.t = "list" -> Len(v.items) > 0
      [] v.t = "dict" -> Len(v.pairs) > 0

\* s.startswith(prefix)
StartsWith(s, prefix) ==
    Len(s) >= Len(prefix) /\ SubSeq(s, 1, Len(prefix)) = prefix

\* s[i:].startswith(prefix), i counted from 1
HasAt(s, i, prefix) ==
    i + Len(prefix) - 1 <= Len(s) /\ SubSeq(s, i, i + Len(prefix) - 1) = prefix

RECURSIVE LStrip(_)
LStrip(s) == IF s # <<>> /\ IsSpace(Head(s)) THEN LStrip(Tail(s)) ELSE s
RECURSIVE RStrip(_)
RStrip(s) == IF s # <<>> /\ IsSpace(s[Len(s)]) THEN RStrip(SubSeq(s, 1, Len(s) - 1)) ELSE s
\* str.strip()
Strip(s) == RStrip(LStrip(s))

RECURSIVE Replace(_, _, _)
\* str.replace(old, new), old non-empty: leftmost non-overlapping occurrences
Replace(s, old, new) ==
    IF s = <<>> THEN <<>>
    ELSE IF StartsWith(s, old) THEN new \o Replace(SubSeq(s, Len(old) + 1, Len(s)), old, new)
    ELSE <<Head(s)>> \o Replace(Tail(s), old, new)

----------------------------------------------------------------------------
(* str() and repr() of a Python value *)

RECURSIVE NatChars(_)
NatChars(n) == IF n < 10 THEN <<Digits[n + 1]>> ELSE NatChars(n \div 10) \o <<Digits[(n % 10) + 1]>>
IntChars(n) == IF n < 0 THEN <<"-">> \o NatChars(-n) ELSE NatChars(n)

Contains(s, c) == \E i \in 1..Len(s) : s[i] = c

RECURSIVE EscapeFor(_, _)
\* the body of repr(str) for the chosen quote q
EscapeFor(s, q) ==
    IF s = <<>> THEN <<>>
    ELSE (CASE Head(s) = BS -> <<BS, BS>>
            [] Head(s) = NL -> <<BS, "n">>
            [] Head(s) = q -> <<BS, q>>
            [] OTHER -> <<Head(s)>>) \o EscapeFor(Tail(s), q)

\* repr(str): single quotes, unless the text holds ' and no "
StrRepr(s) ==
    LET q == IF Contains(s, SQ) /\ ~Contains(s, DQ) THEN DQ ELSE SQ
    IN <<q>> \o EscapeFor(s, q) \o <<q>>

RECURSIVE PyRepr(_)
RECURSIVE ReprItems(_)
RECURSIVE ReprPairs(_)
ReprItems(items) ==
    IF items = <<>> THEN <<>>
    ELSE PyRepr(Head(items))
         \o (IF Len(items) > 1 THEN <<",", SP>> ELSE <<>>)
         \o ReprItems(Tail(items))
ReprPairs(pairs) ==
    IF pairs = <<>> THEN <<>>
    ELSE StrRepr(Head(pairs)[1]) \o <<":", SP>> \o PyRepr(Head(pairs)[2])
         \o (IF Len(pairs) > 1 THEN <<",", SP>> ELSE <<>>)
         \o ReprPairs(Tail(pairs))
PyRepr(v) ==
    CASE v.t = "None" -> <<"N", "o", "n", "e">>
      [] v.t = "bool" -> IF v.b THEN <<"T", "r", "u", "e">> ELSE <<"F", "a", "l", "s", "e">>
      [] v.t = "int" -> IntChars(v.n)
      [] v.t = "str" -> StrRepr(v.s)
      [] v.t = "list" -> <<"[">> \o ReprItems(v.items) \o <<"]">>
      [] v.t = "dict" -> <<"{">> \o ReprPairs(v.pairs) \o <<"}">>

\* str(v): the text itself for a str, repr(v) for the rest
PyStr(v) == IF v.t = "str" THEN v.s ELSE PyRepr(v)

----------------------------------------------------------------------------
(* json.loads: a recursive-descent parser of the JSON text *)

NoParse == [ok |-> FALSE]
Parsed(val, pos) == [ok |-> TRUE, val |-> val, pos |-> pos]

RECURSIVE SkipWs(_, _)
SkipWs(s, i) == IF i <= Len(s) /\ IsSpace(s[i]) THEN SkipWs(s, i + 1) ELSE i

RECURSIVE ScanString(_, _, _)
\* the text of a JSON string whose opening quote is at i - 1
ScanString(s, i, acc) ==
    IF i > Len(s) THEN NoParse
    ELSE IF s[i] = DQ THEN Parsed(acc, i + 1)
    ELSE IF s[i] = NL THEN NoParse
    ELSE IF s[i] = BS THEN
        IF i + 1 > Len(s) THEN NoParse
        ELSE IF s[i + 1] \in {DQ, BS, "/"} THEN ScanString(s, i + 2, Append(acc, s[i + 1]))
        ELSE IF s[i + 1] = "n" THEN ScanString(s, i + 2, Append(acc, NL))
        ELSE NoParse
    ELSE ScanString(s, i + 1, Append(acc, s[i]))

RECURSIVE ScanDigits(_, _, _)
ScanDigits(s, i, acc) ==
    IF i <= Len(s) /\ IsDigit(s[i]) THEN ScanDigits(s, i + 1, 10 * acc + DigitVal(s[i]))
    ELSE Parsed(acc, i)

\* -?(0|[1-9][0-9]*)
ScanInt(s, i) ==
    LET neg == i <= Len(s) /\ s[i] = "-"
        j == IF neg THEN i + 1 ELSE i
    IN IF j > Len(s) \/ ~IsDigit(s[j]) THEN NoParse
       ELSE LET r == IF s[j] = "0" THEN Parsed(0, j + 1) ELSE ScanDigits(s, j, 0)
            IN Parsed(PyInt(IF neg THEN -r.val ELSE r.val), r.pos)

RECURSIVE ParseValue(_, _)
RECURSIVE ParseItems(_, _, _)
RECURSIVE ParseMembers(_, _, _)

\* the items of an array, i at the first character of an item
ParseItems(s, i, acc) ==
    LET v == ParseValue(s, i)
    IN IF ~v.ok THEN NoParse
       ELSE LET j == SkipWs(s, v.pos)
            IN IF j > Len(s) THEN NoParse
               ELSE IF s[j] = "]" THEN Parsed(PyList(Append(acc, v.val)), j + 1)
               ELSE IF s[j] = "," THEN ParseItems(s, SkipWs(s, j + 1), Append(acc, v.val))
               ELSE NoParse

\* the members of an object, i at the opening quote of a key
ParseMembers(s, i, acc) ==
    IF i > Len(s) \/ s[i] # DQ THEN NoParse
    ELSE LET k == ScanString(s, i + 1, <<>>)
         IN IF ~k.ok THEN NoParse
            ELSE LET c == SkipWs(s, k.pos)
                 IN IF c > Len(s) \/ s[c] # ":" THEN NoParse
                    ELSE LET v == ParseValue(s, SkipWs(s, c + 1))
                         IN IF ~v.ok THEN NoParse
                            ELSE LET j == SkipWs(s, v.pos)
                                     more == DictSet(acc, k.val, v.val)
                                 IN IF j > Len(s) THEN NoParse
                                    ELSE IF s[j] = "}" THEN Parsed(PyDict(more), j + 1)
                                    ELSE IF s[j] = "," THEN ParseMembers(s, SkipWs(s, j + 1), more)
                                    ELSE NoParse

ParseValue(s, i) ==
    IF i > Len(s) THEN NoParse
    ELSE IF s[i] = DQ THEN
        LET r == ScanString(s, i + 1, <<>>)
        IN IF r.ok THEN Parsed(PyStrV(r.val), r.pos) ELSE NoParse
    ELSE IF s[i] = "{" THEN
        LET j == SkipWs(s, i + 1)
        IN IF j <= Len(s) /\ s[j] = "}" THEN Parsed(PyDict(<<>>), j + 1)
           ELSE ParseMembers(s, j, <<>>)
    ELSE IF s[i] = "[" THEN
        LET j == SkipWs(s, i + 1)
        IN IF j <= Len(s) /\ s[j] = "]" THEN Parsed(PyList(<<>>), j + 1)
           ELSE ParseItems(s, j, <<>>)
    ELSE IF HasAt(s, i, <<"n", "u", "l", "l">>) THEN Parsed(PyNone, i + 4)
    ELSE IF HasAt(s, i, <<"t", "r", "u", "e">>) THEN Parsed(PyBool(TRUE), i + 4)
    ELSE IF HasAt(s, i, <<"f", "a", "l", "s", "e">>) THEN Parsed(PyBool(FALSE), i + 5)
    ELSE ScanInt(s, i)

\* json.loads(s): one value, white space around it, nothing after it;
\* ~ok stands for json.JSONDecodeError
json_loads(s) ==
    LET v == ParseValue(s, SkipWs(s, 1))
    IN IF v.ok /\ SkipWs(s, v.pos) > Len(s) THEN v ELSE NoParse

----------------------------------------------------------------------------
(* re.search(r"'text':\s*'([^']+)'", s) *)

TextLabel == <<SQ, "t", "e", "x", "t", SQ, ":">>

RECURSIVE NextQuote(_, _)
\* the first index >= i holding ', or Len(s) + 1
NextQuote(s, i) == IF i > Len(s) \/ s[i] = SQ THEN i ELSE NextQuote(s, i + 1)

\* the match anchored at i, if any
MatchAt(s, i) ==
    IF ~HasAt(s, i, TextLabel) THEN [found |-> FALSE]
    ELSE LET q == SkipWs(s, i + Len(TextLabel))
         IN IF q > Len(s) \/ s[q] # SQ THEN [found |-> FALSE]
            ELSE LET e == NextQuote(s, q + 1)
                 IN IF e > Len(s) \/ e = q + 1 THEN [found |-> FALSE]
                    ELSE [found |-> TRUE, group |-> SubSeq(s, q + 1, e - 1)]

\* the leftmost match
re_search_text(s) ==
    IF \E i \in 1..Len(s) : MatchAt(s, i).found
    THEN MatchAt(s, CHOOSE i \in 1..Len(s) :
                        /\ MatchAt(s, i).found
                        /\ \A j \in 1..(i - 1) : ~MatchAt(s, j).found)
    ELSE [found |-> FALSE]

----------------------------------------------------------------------------
(* extract_response_text *)

K_payloads == <<"p", "a", "y", "l", "o", "a", "d", "s">>
K_response == <<"r", "e", "s", "p", "o", "n", "s", "e">>
K_text == <<"t", "e", "x", "t">>
K_message == <<"m", "e", "s", "s", "a", "g", "e">>
K_content == <<"c", "o", "n", "t", "e", "n", "t">>
K_speech == <<"s", "p", "e", "e", "c", "h">>
K_plain == <<"p", "l", "a", "i", "n">>

\* a change of FlatKeys: "text" looked up before "response"
FlatKeysTextFirst == <<K_text, K_response, K_message, K_content, K_speech>>

\* the keys of the loop of line 31, in its order
FlatKeys == <<K_response, K_text, K_message, K_content, K_speech>>

Return(v) == [kind |-> "return", val |-> v]
Raise(exc) == [kind |-> "raise", exc |-> exc]

\* lines 25-28: the payloads rule applies
PayloadsMatch(data) ==
    /\ DictHas(data, K_payloads)
    /\ IsList(DictGet(data, K_payloads))
    /\ Len(DictGet(data, K_payloads).items) > 0
    /\ IsDict(DictGet(data, K_payloads).items[1])
    /\ DictHas(DictGet(data, K_payloads).items[1], K_text)

\* lines 31-33: some key of the loop is in data
FlatMatch(data) == \E n \in 1..Len(FlatKeys) : DictHas(data, FlatKeys[n])
FlatFirst(data) ==
    FlatKeys[CHOOSE n \in 1..Len(FlatKeys) :
                 /\ DictHas(data, FlatKeys[n])
                 /\ \A m \in 1..(n - 1) : ~DictHas(data, FlatKeys[m])]

\* lines 36-38: the nested response rule applies
NestedMatch(data) ==
    /\ DictHas(data, K_response)
    /\ IsDict(DictGet(data, K_response))
    /\ DictHas(DictGet(data, K_response), K_speech)

\* lines 39-41
NestedResult(resp) ==
    LET sp == DictGet(resp, K_speech)
    IN IF IsDict(sp) /\ DictHas(sp, K_plain)
       THEN LET plain == DictGet(sp, K_plain)
            IN IF ~IsDict(plain) THEN Raise("AttributeError")
               ELSE IF DictHas(plain, K_speech) THEN Return(DictGet(plain, K_speech))
               ELSE Return(PyStrV(PyStr(sp)))
       ELSE Return(PyStrV(PyStr(sp)))

\* lines 48-54: str(data), searched for the quoted text
Fallback(data) ==
    LET output_str == PyStr(data)
        text_match == re_search_text(output_str)
    IN IF text_match.found THEN Return(PyStrV(text_match.group))
       ELSE Return(PyStrV(output_str))

\* a change of RawFallback: the raw output is returned without the search
RawFallbackNoSearch(output) == Return(PyStrV(output))

\* lines 56-62: the output is not JSON
RawFallback(output) ==
    LET text_match == re_search_text(output)
    IN IF text_match.found THEN Return(PyStrV(text_match.group))
       ELSE Return(PyStrV(output))

\* a change of DictRules: the flat keys are looked up before "payloads"
DictRulesFlatFirst(data) ==
    IF FlatMatch(data) THEN Return(PyStrV(PyStr(DictGet(data, FlatFirst(data)))))
    ELSE IF PayloadsMatch(data) THEN Return(DictGet(DictGet(data, K_payloads).items[1], K_text))
    ELSE Fallback(data)

\* lines 23-41: the rules of a dict, in the order of the code
DictRules(data) ==
    IF PayloadsMatch(data) THEN Return(DictGet(DictGet(data, K_payloads).items[1], K_text))
    ELSE IF FlatMatch(data) THEN Return(PyStrV(PyStr(DictGet(data, FlatFirst(data)))))
    ELSE IF NestedMatch(data) THEN NestedResult(DictGet(data, K_response))
    ELSE Fallback(data)

extract_response_text(output) ==
    LET p == json_loads(output)
    IN IF ~p.ok THEN RawFallback(output)
       ELSE IF IsDict(p.val) THEN DictRules(p.val)
       ELSE IF IsStr(p.val) THEN Return(p.val)
       ELSE Fallback(p.val)

----------------------------------------------------------------------------
(* The agent's outputs: JSON texts written as json.dumps writes them, and   *)
(* texts that are not JSON                                                  *)

RECURSIVE JsonEscape(_)
JsonEscape(s) ==
    IF s = <<>> THEN <<>>
    ELSE (CASE Head(s) = BS -> <<BS, BS>>
            [] Head(s) = NL -> <<BS, "n">>
            [] Head(s) = DQ -> <<BS, DQ>>
            [] OTHER -> <<Head(s)>>) \o JsonEscape(Tail(s))

RECURSIVE JsonDump(_)
RECURSIVE DumpItems(_)
RECURSIVE DumpPairs(_)
DumpItems(items) ==
    IF items = <<>> THEN <<>>
    ELSE JsonDump(Head(items))
         \o (IF Len(items) > 1 THEN <<",", SP>> ELSE <<>>)
         \o DumpItems(Tail(items))
DumpPairs(pairs) ==
    IF pairs = <<>> THEN <<>>
    ELSE <<DQ>> \o JsonEscape(Head(pairs)[1]) \o <<DQ, ":", SP>> \o JsonDump(Head(pairs)[2])
         \o (IF Len(pairs) > 1 THEN <<",", SP>> ELSE <<>>)
         \o DumpPairs(Tail(pairs))
JsonDump(v) ==
    CASE v.t = "None" -> <<"n", "u", "l", "l">>
      [] v.t = "bool" -> IF v.b THEN <<"t", "r", "u", "e">> ELSE <<"f", "a", "l", "s", "e">>
      [] v.t = "int" -> IntChars(v.n)
      [] v.t = "str" -> <<DQ>> \o JsonEscape(v.s) \o <<DQ>>
      [] v.t = "list" -> <<"[">> \o DumpItems(v.items) \o <<"]">>
      [] v.t = "dict" -> <<"{">> \o DumpPairs(v.pairs) \o <<"}">>

K_other == <<"o", "t", "h", "e", "r">>
T_hi == <<"h", "i">>
T_hello == <<"h", "e", "l", "l", "o">>
T_its == <<"i", "t", SQ, "s">>
T_r1 == <<"r", "1">>
T_t1 == <<"t", "1">>
T_m1 == <<"m", "1">>
T_c1 == <<"*", "*", "c", "*", "*", BS, "n", "1">>
T_s1 == <<"s", "1">>

\* {"speech": {"plain": {"speech": "hello"}}}
NestedSpeech ==
    PyDict(<< <<K_speech, PyDict(<< <<K_plain, PyDict(<< <<K_speech, PyStrV(T_hello)>> >>)>> >>)>> >>)

\* the values the agent puts under "payloads"
PayloadsValues ==
    { PyList(<< PyDict(<< <<K_text, PyStrV(T_hi)>> >>) >>),
      PyList(<< PyDict(<< <<K_text, PyNone>> >>) >>),
      PyList(<< PyDict(<< <<K_other, PyStrV(T_hi)>> >>) >>),
      PyList(<< PyStrV(T_hi) >>),
      PyList(<<>>),
      PyStrV(T_hi) }

\* the key-value pairs the agent's JSON objects are made of
OutputPairs ==
    {<<K_payloads, v>> : v \in PayloadsValues}
    \cup { <<K_response, PyStrV(T_r1)>>, <<K_response, NestedSpeech>>,
           <<K_text, PyStrV(T_t1)>>, <<K_text, PyInt(7)>>,
           <<K_message, PyStrV(T_m1)>>,
           <<K_content, PyStrV(T_c1)>>,
           <<K_speech, PyStrV(T_s1)>>,
           <<K_other, PyDict(<< <<K_text, PyStrV(T_hi)>> >>)>>,
           <<K_other, PyDict(<< <<K_text, PyStrV(T_its)>> >>)>> }

\* the most keys of a generated JSON object
MaxKeys == 2

DistinctKeys(pairs) ==
    \A i, j \in 1..Len(pairs) : i # j => pairs[i][1] # pairs[j][1]

OutputDicts ==
    { PyDict(pairs) : pairs \in
        { q \in UNION {[1..n -> OutputPairs] : n \in 1..MaxKeys} : DistinctKeys(q) } }

\* JSON texts that are no object, and texts that are not JSON
OtherOutputs ==
    { JsonDump(PyStrV(T_hi)), JsonDump(PyInt(7)), JsonDump(PyNone), JsonDump(PyBool(TRUE)),
      JsonDump(PyList(<<>>)), JsonDump(PyDict(<<>>)),
      JsonDump(PyList(<< PyDict(<< <<K_text, PyStrV(T_hi)>> >>) >>)),
      \* {"text": "t1"}\n
      JsonDump(PyDict(<< <<K_text, PyStrV(T_t1)>> >>)) \o <<NL>>,
      \* {"text": "t1", "text": "hi"}
      <<"{">> \o DumpPairs(<< <<K_text, PyStrV(T_t1)>> >>) \o <<",", SP>>
              \o DumpPairs(<< <<K_text, PyStrV(T_hi)>> >>) \o <<"}">>,
      \* {"text": "hi"
      <<"{">> \o DumpPairs(<< <<K_text, PyStrV(T_hi)>> >>),
      \* 'text': 'hi there'
      TextLabel \o <<SP, SQ>> \o T_hi \o <<SP, "t", "h", "e", "r", "e", SQ>>,
      \* {'text':'hi'}
      <<"{">> \o TextLabel \o <<SQ>> \o T_hi \o <<SQ, "}">>,
      \* 'text': ''
      TextLabel \o <<SP, SQ, SQ>>,
      \* 'text': 'hi
      TextLabel \o <<SP, SQ>> \o T_hi,
      \* hello
      T_hello,
      \* **hello**\n1  (a backslash and an n)
      <<"*", "*">> \o T_hello \o <<"*", "*", BS, "n", "1">>,
      <<>> }

Outputs == {JsonDump(d) : d \in OutputDicts} \cup OtherOutputs

----------------------------------------------------------------------------
(* process_conversation: the responses *)

R400 == [status |-> 400, error |-> "Missing 'text' field"]
R504 == [status |-> 504, error |-> "OpenClaw agent timeout"]
\* line 115: a non-zero exit
RFailed(stderr) == [status |-> 500, error |-> "OpenClaw failed", details |-> stderr]
\* line 123: any other exception; str(e) is kept as the exception's class
RError(exc) == [status |-> 500, error |-> exc, details |-> <<>>]
\* line 103: the envelope Home Assistant expects
ROk(speech) == [status |-> 200, speech |-> speech, response_type |-> "action_done"]
NoResp == [status |-> 0]

\* request.get_json() of a body sent as application/json
get_json(body) ==
    LET p == json_loads(body)
    IN IF p.ok THEN Return(p.val) ELSE Raise("BadRequest")

\* sub in s, for two str
IsSubstring(sub, s) == \E i \in 1..(Len(s) + 1) : HasAt(s, i, sub)

\* "text" in data
TextIn(data) ==
    CASE data.t = "dict" -> Return(DictHas(data, K_text))
      [] data.t = "list" -> Return(\E i \in 1..Len(data.items) : data.items[i] = PyStrV(K_text))
      [] data.t = "str" -> Return(IsSubstring(K_text, data.s))
      [] OTHER -> Raise("TypeError")

\* data["text"]
TextOf(data) ==
    IF IsDict(data) THEN Return(DictGet(data, K_text)) ELSE Raise("TypeError")

\* a change of Admit: data.get("text", "") in place of the check of line 75
AdmitDefaultText(body) ==
    LET data == get_json(body)
    IN IF data.kind = "raise" THEN [kind |-> "respond", resp |-> RError(data.exc)]
       ELSE IF ~IsDict(data.val) THEN [kind |-> "respond", resp |-> R400]
       ELSE IF ~DictHas(data.val, K_text) THEN [kind |-> "run", user_message |-> <<>>]
       ELSE IF ~IsStr(DictGet(data.val, K_text)) THEN [kind |-> "respond", resp |-> RError("TypeError")]
       ELSE [kind |-> "run", user_message |-> DictGet(data.val, K_text).s]

\* lines 74-78: the response that ends the handling, or the message to run the agent with
Admit(body) ==
    LET data == get_json(body)
    IN IF data.kind = "raise" THEN [kind |-> "respond", resp |-> RError(data.exc)]
       ELSE IF ~Truthy(data.val) THEN [kind |-> "respond", resp |-> R400]
       ELSE LET has == TextIn(data.val)
            IN IF has.kind = "raise" THEN [kind |-> "respond", resp |-> RError(has.exc)]
               ELSE IF ~has.val THEN [kind |-> "respond", resp |-> R400]
               ELSE LET m == TextOf(data.val)
                    IN IF m.kind = "raise" THEN [kind |-> "respond", resp |-> RError(m.exc)]
                       \* subprocess.run refuses an argument that is no str
                       ELSE IF ~IsStr(m.val) THEN [kind |-> "respond", resp |-> RError("TypeError")]
                       ELSE [kind |-> "run", user_message |-> m.val.s]

\* line 100: .replace("**", "").replace("\\n", "\n")
CleanUp(response_text) ==
    IF ~IsStr(response_text) THEN Raise("AttributeError")
    ELSE Return(PyStrV(Replace(Replace(response_text.s, <<"*", "*">>, <<>>), <<BS, "n">>, <<NL>>)))

\* lines 96-118, and line 123 for what they raise
HandleResult(result) ==
    IF result.returncode = 0
    THEN LET x == extract_response_text(Strip(result.stdout))
         IN IF x.kind = "raise" THEN RError(x.exc)
            ELSE LET c == CleanUp(x.val)
                 IN IF c.kind = "raise" THEN RError(c.exc) ELSE ROk(c.val.s)
    ELSE RFailed(result.stderr)

----------------------------------------------------------------------------
(* The bridge: requests in flight *)

VARIABLES req, xpc, xout, xres, xclean, tts

\* the requests the host handles at once
NReq == 2
Requests == 1..NReq

NoResult == [returncode |-> -1, stdout |-> <<>>, stderr |-> <<>>]

IdleRequest ==
    [pc |-> "idle", body |-> <<>>, user_message |-> <<>>, spawns |-> 0, proc |-> "none",
     result |-> NoResult, resp |-> NoResp]

T_mytext == <<"m", "y", SP>> \o K_text

\* the bodies POSTed to /conversation/process
Bodies ==
    { JsonDump(PyNone), JsonDump(PyDict(<<>>)), JsonDump(PyList(<<>>)), JsonDump(PyStrV(<<>>)),
      JsonDump(PyInt(0)), JsonDump(PyBool(FALSE)),
      JsonDump(PyDict(<< <<K_other, PyStrV(T_hi)>> >>)),
      JsonDump(PyDict(<< <<K_message, PyStrV(T_hi)>>, <<K_other, PyInt(7)>> >>)),
      JsonDump(PyList(<< PyStrV(T_hi) >>)),
      JsonDump(PyDict(<< <<K_text, PyStrV(T_hi)>> >>)),
      JsonDump(PyDict(<< <<K_other, PyInt(7)>>, <<K_text, PyStrV(<<>>)>> >>)),
      JsonDump(PyDict(<< <<K_text, PyInt(7)>> >>)),
      JsonDump(PyDict(<< <<K_text, PyNone>> >>)),
      JsonDump(PyStrV(T_mytext)),
      JsonDump(PyList(<< PyStrV(K_text) >>)),
      JsonDump(PyInt(7)),
      <<"{">> \o DumpPairs(<< <<K_text, PyStrV(T_hi)>> >>),
      <<>> }

\* what the agent writes to stdout on a zero exit
BridgeStdouts ==
    { JsonDump(PyDict(<< <<K_payloads, PyList(<< PyDict(<< <<K_text, PyStrV(T_hi)>> >>) >>)>>,
                         <<K_response, PyStrV(T_r1)>> >>)) \o <<NL>>,
      JsonDump(PyDict(<< <<K_payloads, PyList(<< PyDict(<< <<K_text, PyNone>> >>) >>)>> >>)),
      JsonDump(PyDict(<< <<K_response, NestedSpeech>> >>)),
      JsonDump(PyDict(<< <<K_content, PyStrV(T_c1)>> >>)),
      T_hello,
      <<>> }

\* what the agent writes to stderr on a non-zero exit
BridgeStderrs == { <<"b", "o", "o", "m">> }

\* lines 78-94: the handler runs the agent and waits for it
Spawn(q, body, user_message) ==
    [q EXCEPT !.pc = "waiting", !.body = body, !.user_message = user_message,
              !.spawns = @ + 1, !.proc = "running"]

\* a response that ends the handling before any process is run
Reject(q, body, resp) ==
    [q EXCEPT !.pc = "done", !.body = body, !.resp = resp]

\* lines 96-118: subprocess.run returned
OnExit(q, result) ==
    [q EXCEPT !.pc = "done", !.proc = "exited", !.result = result, !.resp = HandleResult(result)]

\* a change of OnTimeout: the timeout answered as a failed run
OnTimeoutAsFailure(q) ==
    [q EXCEPT !.pc = "done", !.proc = "killed", !.resp = RFailed(<<>>)]

\* a change of OnTimeout: the agent is run again after a timeout
OnTimeoutRetry(q) ==
    [q EXCEPT !.spawns = @ + 1, !.proc = "running"]

\* lines 120-121: subprocess.run killed the agent and raised TimeoutExpired
OnTimeout(q) ==
    [q EXCEPT !.pc = "done", !.proc = "killed", !.resp = R504]

\* a POST arrives: lines 73-94, up to the wait for the agent
Receive(r, body) ==
    /\ req[r].pc = "idle"
    /\ LET a == Admit(body)
       IN req' = [req EXCEPT ![r] = IF a.kind = "run" THEN Spawn(@, body, a.user_message)
                                    ELSE Reject(@, body, a.resp)]
    /\ UNCHANGED <<xpc, xout, xres, xclean, tts>>

\* the agent exits within the timeout
ProcessExit(r, result) ==
    /\ req[r].pc = "waiting"
    /\ req' = [req EXCEPT ![r] = OnExit(@, result)]
    /\ UNCHANGED <<xpc, xout, xres, xclean, tts>>

\* the agent runs for longer than timeout=120
ProcessTimeout(r) ==
    /\ req[r].pc = "waiting"
    /\ req' = [req EXCEPT ![r] = OnTimeout(@)]
    /\ UNCHANGED <<xpc, xout, xres, xclean, tts>>

\* the CompletedProcess values subprocess.run returns
ProcessResults ==
    {[returncode |-> 0, stdout |-> o, stderr |-> <<>>] : o \in BridgeStdouts}
    \cup {[returncode |-> 1, stdout |-> <<>>, stderr |-> e] : e \in BridgeStderrs}

----------------------------------------------------------------------------
(* The zero-exit branch of the handler on one output of the agent *)

NoReturn == Raise("not run")

\* line 97
Extract ==
    /\ xpc = "start"
    /\ xres' = extract_response_text(Strip(xout))
    /\ xpc' = "extracted"
    /\ UNCHANGED <<req, xout, xclean, tts>>

\* line 100
Clean ==
    /\ xpc = "extracted"
    /\ xclean' = IF xres.kind = "raise" THEN xres ELSE CleanUp(xres.val)
    /\ xpc' = "cleaned"
    /\ UNCHANGED <<req, xout, xres, tts>>

----------------------------------------------------------------------------
(* moss-tts.py: main() *)

P_http == <<"h", "t", "t", "p", ":", "/", "/">>
P_https == <<"h", "t", "t", "p", "s", ":", "/", "/">>
RefHttp == P_http \o <<"h", "/", "r">>
RefHttps == P_https \o <<"h", "/", "r">>
RefFile == <<"/", "a", "/", "r">>
RefGone == <<"/", "n", "/", "r">>
AudioFile == <<"/", "t", "/", "g">>
AudioGone == <<"/", "t", "/", "x">>
OutPath == <<"/", "o">>
ServiceUrl == P_http \o <<"m">>
T_ok == <<"o", "k">>
T_err == <<"e", "r", "r">>

\* the paths for which os.path.exists is true
FileSystem == {RefFile, AudioFile}

\* sys.argv, the program's name first
Argvs ==
    { <<OutPath>>, <<OutPath, T_hi>>, <<OutPath, T_hi, OutPath>> }
    \cup { <<OutPath, T_hi, OutPath, ref>> : ref \in {<<>>, RefHttp, RefHttps, RefFile, RefGone} }

\* os.environ's MOSS_TTS_URL: unset (None), or its text
EnvUrls == { PyNone, PyStrV(<<>>), PyStrV(<<SP, SP>>), PyStrV(<<SP>> \o ServiceUrl \o <<NL>>) }

\* what client.predict does: it raises, or returns a tuple
PredictOutcomes ==
    { Raise("Exception"),
      Return(PyList(<<PyStrV(AudioFile), PyStrV(T_ok)>>)),
      Return(PyList(<<PyStrV(AudioFile)>>)),
      Return(PyList(<<PyStrV(AudioGone), PyStrV(T_ok)>>)),
      Return(PyList(<<PyStrV(<<>>), PyStrV(T_err)>>)),
      Return(PyList(<<PyNone, PyStrV(T_err)>>)),
      Return(PyList(<<>>)) }

Diag(level, msg, arg) == [level |-> level, msg |-> msg, arg |-> arg]

\* print(..., file=sys.stderr); sys.exit(1)
Abort(t, msg, arg) ==
    [t EXCEPT !.pc = "done", !.exit = 1, !.stderr = Append(@, Diag("ERROR", msg, arg))]

TtsStart(argv, env_url, installed) ==
    [pc |-> "start", argv |-> argv, env_url |-> env_url, installed |-> installed,
     reference_audio |-> PyNone, moss_url |-> <<>>, ref_audio |-> PyNone,
     outcome |-> NoReturn, predicts |-> 0, predict_ref |-> PyNone,
     copies |-> 0, written |-> FALSE, stderr |-> <<>>, stdout |-> <<>>, exit |-> -1]

\* lines 18-35: the arguments, MOSS_TTS_URL, the import of gradio_client
StartUp(t) ==
    IF Len(t.argv) < 3 THEN Abort(t, "Usage", <<>>)
    ELSE LET reference_audio == IF Len(t.argv) > 3 THEN PyStrV(t.argv[4]) ELSE PyNone
             moss_url == Strip(IF t.env_url = PyNone THEN <<>> ELSE t.env_url.s)
         IN IF moss_url = <<>> THEN Abort(t, "MOSS_TTS_URL not set", <<>>)
            ELSE IF ~t.installed THEN Abort(t, "gradio_client not installed", <<>>)
            ELSE [t EXCEPT !.pc = "connect", !.reference_audio = reference_audio,
                           !.moss_url = moss_url]

\* line 38: Client(moss_url), and lines 74-76 when it raises
Connect(t, ok) ==
    IF ok THEN [t EXCEPT !.pc = "resolve"] ELSE Abort(t, "Exception", <<>>)

\* handle_file(path_or_url)
handle_file(path) == [t |-> "file", path |-> path]

\* a change of Resolve: a reference that is not found ends the run
ResolveAbort(t) ==
    IF Truthy(t.reference_audio)
    THEN IF StartsWith(t.reference_audio.s, P_http) \/ StartsWith(t.reference_audio.s, P_https)
              \/ t.reference_audio.s \in FileSystem
         THEN [t EXCEPT !.pc = "predict", !.ref_audio = handle_file(t.reference_audio.s)]
         ELSE Abort(t, "reference audio not found", t.reference_audio.s)
    ELSE [t EXCEPT !.pc = "predict"]

\* lines 41-48: the reference audio
Resolve(t) ==
    IF Truthy(t.reference_audio)
    THEN IF StartsWith(t.reference_audio.s, P_http) \/ StartsWith(t.reference_audio.s, P_https)
         THEN [t EXCEPT !.pc = "predict", !.ref_audio = handle_file(t.reference_audio.s)]
         ELSE IF t.reference_audio.s \in FileSystem
         THEN [t EXCEPT !.pc = "predict", !.ref_audio = handle_file(t.reference_audio.s)]
         ELSE [t EXCEPT !.pc = "predict",
                        !.stderr = Append(@, Diag("WARN", "reference audio not found",
                                                  t.reference_audio.s))]
    ELSE [t EXCEPT !.pc = "predict"]

\* lines 50-62: client.predict, and lines 74-76 when it raises
Predict(t, outcome) ==
    LET called == [t EXCEPT !.predicts = @ + 1, !.predict_ref = t.ref_audio, !.outcome = outcome]
    IN IF outcome.kind = "raise" THEN Abort(called, outcome.exc, <<>>)
       ELSE [called EXCEPT !.pc = "validate"]

\* a change of Validate: os.path.exists is not asked
ValidateNoExists(t) ==
    LET result == t.outcome.val
    IN IF Len(result.items) = 0 THEN Abort(t, "IndexError", <<>>)
       ELSE IF ~Truthy(result.items[1])
            THEN Abort(t, "MOSS TTS produced no audio", <<>>)
            ELSE [t EXCEPT !.pc = "copy"]

\* lines 64-69: the audio path must be non-empty and exist
Validate(t) ==
    LET result == t.outcome.val
    IN IF Len(result.items) = 0 THEN Abort(t, "IndexError", <<>>)
       ELSE LET audio_path == result.items[1]
                status == IF Len(result.items) > 1 THEN result.items[2] ELSE PyStrV(<<>>)
            IN IF ~Truthy(audio_path) \/ audio_path.s \notin FileSystem
               THEN Abort(t, "MOSS TTS produced no audio", PyStr(status))
               ELSE [t EXCEPT !.pc = "copy"]

\* lines 71-72: shutil.copy and the success marker, and lines 74-76 when the copy raises
Copy(t, ok) ==
    LET tried == [t EXCEPT !.copies = @ + 1]
    IN IF ok
       THEN [tried EXCEPT !.pc = "done", !.exit = 0, !.written = TRUE,
                          !.stdout = Append(@, [marker |-> "OK", path |-> t.argv[3]])]
       ELSE Abort(tried, "OSError", <<>>)

DoStartUp ==
    /\ tts.pc = "start"
    /\ tts' = StartUp(tts)
    /\ UNCHANGED <<req, xpc, xout, xres, xclean>>

DoConnect ==
    /\ tts.pc = "connect"
    /\ \E ok \in BOOLEAN : tts' = Connect(tts, ok)
    /\ UNCHANGED <<req, xpc, xout, xres, xclean>>

DoResolve ==
    /\ tts.pc = "resolve"
    /\ tts' = Resolve(tts)
    /\ UNCHANGED <<req, xpc, xout, xres, xclean>>

DoPredict ==
    /\ tts.pc = "predict"
    /\ \E outcome \in PredictOutcomes : tts' = Predict(tts, outcome)
    /\ UNCHANGED <<req, xpc, xout, xres, xclean>>

DoValidate ==
    /\ tts.pc = "validate"
    /\ tts' = Validate(tts)
    /\ UNCHANGED <<req, xpc, xout, xres, xclean>>

DoCopy ==
    /\ tts.pc = "copy"
    /\ \E ok \in BOOLEAN : tts' = Copy(tts, ok)
    /\ UNCHANGED <<req, xpc, xout, xres, xclean>>

----------------------------------------------------------------------------
(* The specifications *)

vars == <<req, xpc, xout, xres, xclean, tts>>

BridgeIdle == req = [r \in Requests |-> IdleRequest]
ExtractIdle == xpc = "off" /\ xout = <<>> /\ xres = NoReturn /\ xclean = NoReturn
TtsIdle == tts = [pc |-> "off"]

\* the bridge service
Init == BridgeIdle /\ ExtractIdle /\ TtsIdle
Next ==
    \/ \E r \in Requests, body \in Bodies : Receive(r, body)
    \/ \E r \in Requests, result \in ProcessResults : ProcessExit(r, result)
    \/ \E r \in Requests : ProcessTimeout(r)
Spec == Init /\ [][Next]_vars

\* the zero-exit branch on every output
InitExtract ==
    /\ BridgeIdle /\ TtsIdle
    /\ xpc = "start" /\ xout \in Outputs /\ xres = NoReturn /\ xclean = NoReturn
NextExtract == Extract \/ Clean
SpecExtract == InitExtract /\ [][NextExtract]_vars

\* the synthesis client
InitTTS ==
    /\ BridgeIdle /\ ExtractIdle
    /\ \E argv \in Argvs, env_url \in EnvUrls, installed \in BOOLEAN :
           tts = TtsStart(argv, env_url, installed)
NextTTS == DoStartUp \/ DoConnect \/ DoResolve \/ DoPredict \/ DoValidate \/ DoCopy
SpecTTS == InitTTS /\ [][NextTTS]_vars

----------------------------------------------------------------------------
(* The bridge endpoint: claims C1, C5, C9 *)

\* the JSON body is null, falsy-empty, or a mapping without "text"
BodyLacksText(body) ==
    LET p == json_loads(body)
    IN p.ok /\ (~Truthy(p.val) \/ (IsDict(p.val) /\ ~DictHas(p.val, K_text)))

\* the body gets past line 75: it is truthy and "text" in data is true
PassesTextCheck(body) ==
    LET p == json_loads(body)
    IN p.ok /\ Truthy(p.val) /\ TextIn(p.val) = Return(TRUE)

\* the body is a mapping whose "text" is a string
HasStringText(body) ==
    LET p == json_loads(body)
    IN p.ok /\ IsDict(p.val) /\ DictHas(p.val, K_text) /\ IsStr(DictGet(p.val, K_text))

\* C1: a POST whose JSON body is null, empty or a mapping without "text" is
\* answered 400 {"error": "Missing 'text' field"}, and no agent process is
\* spawned at any point of its handling.
C1_MissingTextRejected ==
    \A r \in Requests :
        (req[r].pc # "idle" /\ BodyLacksText(req[r].body))
            => /\ req[r].pc = "done"
               /\ req[r].resp = R400
               /\ req[r].spawns = 0
               /\ req[r].proc = "none"

C1_Witness ==
    \E r \in Requests :
        /\ req[r].pc = "done"
        /\ req[r].body = JsonDump(PyDict(<< <<K_message, PyStrV(T_hi)>>, <<K_other, PyInt(7)>> >>))
        /\ req[r].resp = R400
        /\ req[r].spawns = 0

\* C5: a timeout of the agent is answered 504 {"error": "OpenClaw agent timeout"},
\* never 500 "OpenClaw failed" nor the 200 envelope, and no other outcome of the
\* process is answered 504.
C5_TimeoutIs504 ==
    \A r \in Requests :
        /\ req[r].proc = "killed" => req[r].resp = R504
        /\ req[r].resp.status = 504 => (req[r].proc = "killed" /\ req[r].resp = R504)
        /\ (req[r].pc = "done" /\ req[r].proc = "exited") =>
               req[r].resp = HandleResult(req[r].result) /\ req[r].resp.status \in {200, 500}

C5_Witness ==
    \E r \in Requests :
        req[r].pc = "done" /\ req[r].proc = "killed" /\ req[r].spawns = 1 /\ req[r].resp = R504

----------------------------------------------------------------------------
(* extract_response_text: claims C2, C3, C4, C7, C10 *)

\* what json.loads made of the output the handler extracts from
XParsed == json_loads(Strip(xout))
XIsDict == XParsed.ok /\ IsDict(XParsed.val)

\* "payloads" is a non-empty sequence whose first element is a mapping with "text"
HasPayloadText(data) ==
    /\ DictHas(data, K_payloads)
    /\ DictGet(data, K_payloads).t = "list"
    /\ DictGet(data, K_payloads).items # <<>>
    /\ DictGet(data, K_payloads).items[1].t = "dict"
    /\ DictHas(DictGet(data, K_payloads).items[1], K_text)

\* the value of the first of response, text, message, content, speech in data
FirstFlatValue(data) ==
    IF DictHas(data, K_response) THEN DictGet(data, K_response)
    ELSE IF DictHas(data, K_text) THEN DictGet(data, K_text)
    ELSE IF DictHas(data, K_message) THEN DictGet(data, K_message)
    ELSE IF DictHas(data, K_content) THEN DictGet(data, K_content)
    ELSE DictGet(data, K_speech)

HasFlatKey(data) ==
    \E k \in {K_response, K_text, K_message, K_content, K_speech} : DictHas(data, k)

\* C2: for a JSON mapping with a non-empty "payloads" sequence whose first
\* element is a mapping with "text", extraction returns exactly that field's
\* value, whatever other top-level keys the mapping holds.
C2_PayloadsTextWins ==
    (xpc # "start" /\ XIsDict /\ HasPayloadText(XParsed.val))
        => xres = Return(DictGet(DictGet(XParsed.val, K_payloads).items[1], K_text))

C2_Witness ==
    /\ xpc = "extracted"
    /\ XIsDict /\ HasPayloadText(XParsed.val)
    /\ DictHas(XParsed.val, K_response)
    /\ XParsed.val.pairs[1][1] = K_response
    /\ xres = Return(PyStrV(T_hi))

\* speech.plain.speech of a mapping
InnerSpeech(resp) == DictGet(DictGet(DictGet(resp, K_speech), K_plain), K_speech)
HasInnerSpeech(resp) ==
    /\ IsDict(resp) /\ DictHas(resp, K_speech)
    /\ IsDict(DictGet(resp, K_speech)) /\ DictHas(DictGet(resp, K_speech), K_plain)
    /\ IsDict(DictGet(DictGet(resp, K_speech), K_plain))
    /\ DictHas(DictGet(DictGet(resp, K_speech), K_plain), K_speech)

\* C3: for {"response": {"speech": {"plain": {"speech": "hello"}}}}, and for every
\* JSON mapping without "payloads" whose "response" is a mapping holding
\* speech.plain.speech, extraction returns the inner speech string, not the
\* string form of the "response" mapping.
C3_NestedSpeechExtracted ==
    ( /\ xpc # "start" /\ XIsDict
      /\ ~DictHas(XParsed.val, K_payloads)
      /\ DictHas(XParsed.val, K_response)
      /\ HasInnerSpeech(DictGet(XParsed.val, K_response)) )
        => xres = Return(InnerSpeech(DictGet(XParsed.val, K_response)))

C7_ExtractedIsString ==
    xpc # "start" => (xres.kind = "return" /\ xres.val.t = "str")

----------------------------------------------------------------------------
(* The synthesis client: claims C6, C8 *)

\* the audio path of the result is a non-empty path that exists
GoodResult(outcome) ==
    /\ outcome.kind = "return"
    /\ outcome.val.items # <<>>
    /\ outcome.val.items[1].t = "str"
    /\ outcome.val.items[1].s # <<>>
    /\ outcome.val.items[1].s \in FileSystem

\* the cases in which the client must fail
UrlBlank == tts.env_url = PyNone \/ \A i \in 1..Len(tts.env_url.s) : tts.env_url.s[i] \in {SP, NL}
FailCase ==
    \/ UrlBlank
    \/ ~tts.installed
    \/ tts.predicts > 0 /\ ~GoodResult(tts.outcome)

Errored ==
    /\ tts.exit = 1
    /\ tts.stderr # <<>>
    /\ tts.stderr[Len(tts.stderr)].level = "ERROR"

\* C6: the output file is written only after the result's audio path is
\* non-empty and exists; when MOSS_TTS_URL is missing or blank, the client
\* library is missing, the remote call raises, or the audio path is empty or
\* does not exist, the client exits 1 after an ERROR diagnostic, attempts no
\* copy and prints no OK:<path>.
C6_CopyOnlyOfExistingAudio ==
    /\ tts.copies > 0 => GoodResult(tts.outcome)
    /\ tts.written => tts.copies = 1
    /\ tts.stdout # <<>> => (tts.written /\ tts.exit = 0)
    /\ FailCase => /\ tts.copies = 0 /\ ~tts.written /\ tts.stdout = <<>>
                   /\ tts.exit # 0
                   /\ tts.pc \notin {"copy"}
                   /\ tts.pc = "done" => Errored
    /\ tts.pc = "done" <=> tts.exit \in {0, 1}

C6_Witness ==
    /\ tts.pc = "done"
    /\ tts.predicts = 1
    /\ tts.outcome = Return(PyList(<<PyStrV(AudioGone), PyStrV(T_ok)>>))
    /\ Errored
    /\ tts.copies = 0

IsUrl(s) == StartsWith(s, P_http) \/ StartsWith(s, P_https)
RefGiven == Len(tts.argv) > 3
\* the reference argument is neither a URL nor an existing file
BadRef == RefGiven /\ ~IsUrl(tts.argv[4]) /\ tts.argv[4] \notin FileSystem
\* the run is past the resolution of the reference
PastResolve == tts.pc \in {"predict", "validate", "copy"} \/ tts.predicts > 0
Warned ==
    \E i \in 1..Len(tts.stderr) :
        tts.stderr[i] = Diag("WARN", "reference audio not found", tts.argv[4])

\* the diagnostics of a run that ends before the reference is looked at
StartUpErrors == {"Usage", "MOSS_TTS_URL not set", "gradio_client not installed", "Exception"}

\* what C8 says of a reference the predicate bad holds of, and of the others;
\* a run that ends without the prediction call ended at start-up or at the
\* connection, never at the reference
C8_Statement(bad) ==
    /\ (bad /\ PastResolve) =>
           /\ Warned
           /\ tts.ref_audio = PyNone
           /\ tts.pc = "predict" => (tts.exit = -1 /\ tts.predicts = 0)
           /\ tts.pc # "predict" => (tts.predicts = 1 /\ tts.predict_ref = PyNone)
    /\ (RefGiven /\ (IsUrl(tts.argv[4]) \/ tts.argv[4] \in FileSystem) /\ PastResolve) =>
           /\ ~Warned
           /\ tts.ref_audio = handle_file(tts.argv[4])
           /\ tts.predicts > 0 => tts.predict_ref = handle_file(tts.argv[4])
    /\ (tts.pc = "done" /\ tts.predicts > 0) =>
           /\ tts.exit = 0 <=> (GoodResult(tts.outcome) /\ tts.written)
           /\ ~GoodResult(tts.outcome) => tts.exit = 1
    /\ (tts.pc = "done" /\ tts.predicts = 0) =>
           \E m \in StartUpErrors : tts.stderr = <<Diag("ERROR", m, <<>>)>>

\* C8 as written: a reference-audio argument that is neither an http(s) URL nor
\* an existing file gets a WARN diagnostic and the prediction is still called,
\* with no reference.
C8_Original == C8_Statement(BadRef)

\* C8 as amended: once the client is connected, a non-empty reference-audio
\* argument that is neither an http(s) URL nor an existing file does not end the
\* run: a WARN diagnostic is written, the prediction is still called with no
\* reference, and the exit status is decided by that call's result and the copy;
\* a URL or an existing path is passed through handle_file.  An empty argument is
\* taken as no reference, without a WARN.
C8_BadReferenceWarns ==
    /\ C8_Statement(BadRef /\ tts.argv[4] # <<>>)
    /\ (RefGiven /\ tts.argv[4] = <<>> /\ PastResolve) =>
           /\ tts.stderr # <<>> => tts.stderr[1].level = "ERROR"
           /\ tts.ref_audio = PyNone
           /\ tts.predicts > 0 => tts.predict_ref = PyNone

C8_Witness ==
    /\ tts.pc = "done"
    /\ RefGiven /\ tts.argv[4] = RefGone
    /\ Warned
    /\ tts.predicts = 1 /\ tts.predict_ref = PyNone
    /\ tts.exit = 0 /\ tts.written

=============================================================================
